---- MODULE Spec2Model ----
(***************************************************************************)
(* A model of the lexer of src/src/compiler/lexer.rs.                      *)
(*                                                                         *)
(* The source text is a Rust &str: a valid UTF-8 byte string.  It is       *)
(* modelled as a sequence of bytes in which every character is its lead    *)
(* byte (named by the character) followed by len_utf8 - 1 continuation     *)
(* bytes Cont.  Offsets (index, start, end) are byte offsets, as in the    *)
(* code.  Slicing the string at an offset that is out of range or inside   *)
(* a character panics, as does unwrap() of None.                           *)
(***************************************************************************)
EXTENDS Integers, Sequences, FiniteSets, TLC

VARIABLES string, index, tokens, panicked, others

vars == <<string, index, tokens, panicked, others>>

(***************************************************************************)
(* Bounds of the model.                                                    *)
(***************************************************************************)
\* longest source drawn from the full alphabet
MaxLen == 2
\* most fragments concatenated into a source of words
MaxWords == 3
\* calls of next() made beyond one per byte of the source
ExtraCalls == 2

(***************************************************************************)
(* Characters.                                                             *)
(***************************************************************************)
LF == "\n"
CR == "\r"
TAB == "\t"
SingleQuote == "'"
DoubleQuote == "\""
\* a two-byte character (U+00E9) and a three-byte character (U+20AC)
EAcute == "U+00E9"
Euro == "U+20AC"
\* a continuation byte of a multi-byte character
Cont == "cont"

Digit == {"0", "1", "2", "3", "4", "5", "6", "7", "8", "9"}
Upper == {"A", "B", "C", "D", "E", "F", "G", "H", "I", "J", "K", "L", "M",
          "N", "O", "P", "Q", "R", "S", "T", "U", "V", "W", "X", "Y", "Z"}
Lower == {"a", "b", "c", "d", "e", "f", "g", "h", "i", "j", "k", "l", "m",
          "n", "o", "p", "q", "r", "s", "t", "u", "v", "w", "x", "y", "z"}
WordChar == Upper \cup Lower \cup {"_"}
NumChar == Digit \cup {"_"}
Blank == {" ", CR, TAB}

\* char::len_utf8
len_utf8(c) == IF c = EAcute THEN 2 ELSE IF c = Euro THEN 3 ELSE 1

\* the UTF-8 encoding of one character, and of a sequence of characters
EncodeChar(c) == <<c>> \o [k \in 1..(len_utf8(c) - 1) |-> Cont]

RECURSIVE Utf8(_)
Utf8(cs) == IF cs = <<>> THEN <<>> ELSE EncodeChar(Head(cs)) \o Utf8(Tail(cs))

\* str::is_char_boundary
is_char_boundary(s, i) ==
    \/ i = 0
    \/ i = Len(s)
    \/ (0 < i /\ i < Len(s) /\ s[i + 1] # Cont)

(***************************************************************************)
(* Tokens (token.rs).                                                      *)
(***************************************************************************)
TokenKind == {"Invalid", "End", "WhiteSpace", "LineBreak", "Comment",
              "Identifier", "Struct", "Union", "Trait", "Or", "And", "Colon",
              "DoubleColon", "Dot", "ParenL", "ParenR", "SquareL", "SquareR",
              "CurlyL", "CurlyR", "At", "Hashtag", "Plus", "DoublePlus",
              "Equals", "DoubleEquals", "ThinArrow", "ThickArrow", "Comma",
              "Minus", "Times", "Div", "String", "Char", "Int", "Float"}

\* what a call yields instead of a token when it panics; an index of Unwound
\* is the index of a scanner whose call is unwinding
Unwound == 0 - 1
PanicToken == [kind |-> "Panic", start |-> Unwound, end |-> Unwound]

\* Token::new; building a token from the index of an unwinding call is the
\* unwinding call itself
Token(kind, start, end) ==
    IF start < 0 \/ end < 0 THEN PanicToken
    ELSE [kind |-> kind, start |-> start, end |-> end]

(***************************************************************************)
(* The lexer's helpers.                                                    *)
(***************************************************************************)
None == "None"
Panic == "Panic"

\* Lexer::peek_char: self.string[self.index..].chars().next(); the slice
\* panics when index is past the end or inside a character
peek_char(s, i) ==
    IF i < 0 \/ i > Len(s) THEN Panic
    ELSE IF ~is_char_boundary(s, i) THEN Panic
    ELSE IF i = Len(s) THEN None
    ELSE s[i + 1]

\* Lexer::next_char: the new index; unwrap() panics on None
next_char(s, i) ==
    LET next == peek_char(s, i)
    IN  IF next \in {None, Panic} THEN Unwound ELSE i + len_utf8(next)

\* invalid() as a scanner that skips only the offending byte would have it
invalid_one_byte(s, start) == Token("Invalid", start, start + 1)

\* Lexer::invalid
invalid(s, start) == Token("Invalid", start, Len(s))

(***************************************************************************)
(* The sub-scanners.  Each takes the string and self.index at entry (which *)
(* the code names start) and yields the token it returns (PanicToken when  *)
(* it panics).                                                             *)
(***************************************************************************)
\* whitespace_loop as an if-let: it takes one character and stops
whitespace_loop_one(s, i) ==
    LET p == peek_char(s, i)
    IN  IF p = Panic THEN Unwound
        ELSE IF p \in Blank THEN next_char(s, i)
        ELSE i

\* the while-let loop of from_whitespace: the index it stops at
RECURSIVE whitespace_loop(_, _)
whitespace_loop(s, i) ==
    LET p == peek_char(s, i)
    IN  IF p = Panic THEN Unwound
        ELSE IF p \in Blank THEN whitespace_loop(s, next_char(s, i))
        ELSE i

from_whitespace(s, start) ==
    Token("WhiteSpace", start, whitespace_loop(s, start))

from_dash(s, start) ==
    LET i == next_char(s, start)
        p == peek_char(s, i)
    IN  IF p = Panic THEN PanicToken
        ELSE IF p = ">" THEN Token("ThinArrow", start, i + 1)
        ELSE Token("Minus", start, i)

from_equals(s, start) ==
    LET i == next_char(s, start)
        p == peek_char(s, i)
    IN  IF p = Panic THEN PanicToken
        ELSE IF p = ">" THEN Token("ThickArrow", start, i + 1)
        ELSE IF p = "=" THEN Token("DoubleEquals", start, i + 1)
        ELSE Token("Equals", start, i)

\* from_plus looking ahead for the character from_equals looks for
from_plus_copied(s, start) ==
    LET i == next_char(s, start)
        p == peek_char(s, i)
    IN  IF p = Panic THEN PanicToken
        ELSE IF p = "=" THEN Token("DoublePlus", start, i + 1)
        ELSE Token("Plus", start, i)

from_plus(s, start) ==
    LET i == next_char(s, start)
        p == peek_char(s, i)
    IN  IF p = Panic THEN PanicToken
        ELSE IF p = "+" THEN Token("DoublePlus", start, i + 1)
        ELSE Token("Plus", start, i)

\* line_comment_loop taking the newline into the comment
RECURSIVE line_comment_loop_eats_newline(_, _)
line_comment_loop_eats_newline(s, i) ==
    LET p == peek_char(s, i)
    IN  IF p = Panic THEN Unwound
        ELSE IF p = None THEN i
        ELSE IF p = LF THEN next_char(s, i)
        ELSE line_comment_loop_eats_newline(s, next_char(s, i))

\* the loop of a line comment: the index it breaks at
RECURSIVE line_comment_loop(_, _)
line_comment_loop(s, i) ==
    LET p == peek_char(s, i)
    IN  IF p = Panic THEN Unwound
        ELSE IF p \in {LF, None} THEN i
        ELSE line_comment_loop(s, next_char(s, i))

\* the loop of a block comment and the two statements after it
RECURSIVE block_comment_loop(_, _, _)
block_comment_loop(s, start, i) ==
    LET p == peek_char(s, i)
    IN  IF p = Panic THEN PanicToken
        ELSE IF p = None THEN invalid(s, start)
        ELSE LET j == next_char(s, i)
                 q == peek_char(s, j)
             IN  IF q = Panic THEN PanicToken
                 ELSE IF p = "*" /\ q = "/"
                      THEN Token("Comment", start, next_char(s, j))
                 ELSE block_comment_loop(s, start, j)

\* from_slash entering the block comment loop without consuming the '*'
from_slash_star_reused(s, start) ==
    LET i == next_char(s, start)
        p == peek_char(s, i)
    IN  IF p = Panic THEN PanicToken
        ELSE IF p = "/"
             THEN Token("Comment", start, line_comment_loop(s, next_char(s, i)))
        ELSE IF p = "*" THEN block_comment_loop(s, start, i)
        ELSE Token("Div", start, i)

from_slash(s, start) ==
    LET i == next_char(s, start)
        p == peek_char(s, i)
    IN  IF p = Panic THEN PanicToken
        ELSE IF p = "/"
             THEN Token("Comment", start, line_comment_loop(s, next_char(s, i)))
        ELSE IF p = "*" THEN block_comment_loop(s, start, next_char(s, i))
        ELSE Token("Div", start, i)

\* from_single_quote taking two quotes with nothing between them as a Char
from_single_quote_empty(s, start) ==
    LET i == next_char(s, start)
        p == peek_char(s, i)
    IN  IF p = Panic THEN PanicToken
        ELSE IF p = SingleQuote THEN Token("Char", start, i + 1)
        ELSE IF p = None THEN invalid(s, start)
        ELSE LET j == next_char(s, i)
                 q == peek_char(s, j)
             IN  IF q = Panic THEN PanicToken
                 ELSE IF q = SingleQuote THEN Token("Char", start, j + 1)
                 ELSE invalid(s, start)

\* from_single_quote without the None arm of its first match
from_single_quote_no_eof(s, start) ==
    LET i == next_char(s, start)
        p == peek_char(s, i)
    IN  IF p = Panic THEN PanicToken
        ELSE IF p = SingleQuote THEN invalid(s, start)
        ELSE LET j == next_char(s, i)
                 q == peek_char(s, j)
             IN  IF q = Panic THEN PanicToken
                 ELSE IF q = SingleQuote THEN Token("Char", start, j + 1)
                 ELSE invalid(s, start)

from_single_quote(s, start) ==
    LET i == next_char(s, start)
        p == peek_char(s, i)
    IN  IF p = Panic THEN PanicToken
        ELSE IF p \in {SingleQuote, None} THEN invalid(s, start)
        ELSE LET j == next_char(s, i)
                 q == peek_char(s, j)
             IN  IF q = Panic THEN PanicToken
                 ELSE IF q = SingleQuote THEN Token("Char", start, j + 1)
                 ELSE invalid(s, start)

\* quote_loop with a backslash escaping the character after it
RECURSIVE quote_loop_escapes(_, _, _)
quote_loop_escapes(s, start, i) ==
    LET p == peek_char(s, i)
    IN  IF p = Panic THEN PanicToken
        ELSE IF p = DoubleQuote THEN Token("String", start, i + 1)
        ELSE IF p = None THEN invalid(s, start)
        ELSE IF p = "\\"
             THEN LET j == next_char(s, i)
                  IN  IF peek_char(s, j) = None THEN invalid(s, start)
                      ELSE quote_loop_escapes(s, start, next_char(s, j))
        ELSE quote_loop_escapes(s, start, next_char(s, i))

\* the loop of from_quote and the statement after it
RECURSIVE quote_loop(_, _, _)
quote_loop(s, start, i) ==
    LET p == peek_char(s, i)
    IN  IF p = Panic THEN PanicToken
        ELSE IF p = DoubleQuote THEN Token("String", start, i + 1)
        ELSE IF p = None THEN invalid(s, start)
        ELSE quote_loop(s, start, next_char(s, i))

from_quote(s, start) ==
    quote_loop(s, start, next_char(s, start))

from_colon(s, start) ==
    LET i == next_char(s, start)
        p == peek_char(s, i)
    IN  IF p = Panic THEN PanicToken
        ELSE IF p = ":" THEN Token("DoubleColon", start, i + 1)
        ELSE Token("Colon", start, i)

\* digit_loop leaving the loop at a second decimal point
RECURSIVE digit_loop_second_dot_breaks(_, _, _, _)
digit_loop_second_dot_breaks(s, start, i, dot_index) ==
    LET p == peek_char(s, i)
    IN  IF p = Panic THEN PanicToken
        ELSE IF p \in NumChar
             THEN digit_loop_second_dot_breaks(s, start, next_char(s, i),
                                               dot_index)
        ELSE IF p = "." /\ dot_index = <<>>
             THEN LET j == next_char(s, i)
                  IN  digit_loop_second_dot_breaks(s, start, j, <<j>>)
        ELSE IF dot_index # <<>> /\ dot_index[1] = i THEN invalid(s, start)
        ELSE IF dot_index # <<>> THEN Token("Float", start, i)
        ELSE Token("Int", start, i)

\* digit_loop taking the dot only when a digit or underscore follows it
RECURSIVE digit_loop_peek_two(_, _, _, _)
digit_loop_peek_two(s, start, i, dot_index) ==
    LET p == peek_char(s, i)
    IN  IF p = Panic THEN PanicToken
        ELSE IF p \in NumChar
             THEN digit_loop_peek_two(s, start, next_char(s, i), dot_index)
        ELSE IF p = "." /\ peek_char(s, next_char(s, i)) \in NumChar
             THEN IF dot_index # <<>> THEN invalid(s, start)
                  ELSE LET j == next_char(s, i)
                       IN  digit_loop_peek_two(s, start, j, <<j>>)
        ELSE IF dot_index # <<>> THEN Token("Float", start, i)
        ELSE Token("Int", start, i)

\* digit_loop accepting an underscore only when a digit follows it
RECURSIVE digit_loop_strict(_, _, _, _)
digit_loop_strict(s, start, i, dot_index) ==
    LET p == peek_char(s, i)
    IN  IF p = Panic THEN PanicToken
        ELSE IF p \in Digit
             THEN digit_loop_strict(s, start, next_char(s, i), dot_index)
        ELSE IF p = "_"
             THEN IF peek_char(s, next_char(s, i)) \in Digit
                  THEN digit_loop_strict(s, start, next_char(s, i), dot_index)
                  ELSE invalid(s, start)
        ELSE IF p = "."
             THEN IF dot_index # <<>> THEN invalid(s, start)
                  ELSE LET j == next_char(s, i)
                       IN  digit_loop_strict(s, start, j, <<j>>)
        ELSE IF dot_index # <<>> /\ dot_index[1] = i THEN invalid(s, start)
        ELSE IF dot_index # <<>> THEN Token("Float", start, i)
        ELSE Token("Int", start, i)

\* digit_loop without the arm that rejects a literal ending with its dot
RECURSIVE digit_loop_trailing_dot(_, _, _, _)
digit_loop_trailing_dot(s, start, i, dot_index) ==
    LET p == peek_char(s, i)
    IN  IF p = Panic THEN PanicToken
        ELSE IF p \in NumChar
             THEN digit_loop_trailing_dot(s, start, next_char(s, i), dot_index)
        ELSE IF p = "."
             THEN IF dot_index # <<>> THEN invalid(s, start)
                  ELSE LET j == next_char(s, i)
                       IN  digit_loop_trailing_dot(s, start, j, <<j>>)
        ELSE IF dot_index # <<>> THEN Token("Float", start, i)
        ELSE Token("Int", start, i)

\* digit_loop ending the Invalid token at the second decimal point
RECURSIVE digit_loop_local(_, _, _, _)
digit_loop_local(s, start, i, dot_index) ==
    LET p == peek_char(s, i)
    IN  IF p = Panic THEN PanicToken
        ELSE IF p \in NumChar
             THEN digit_loop_local(s, start, next_char(s, i), dot_index)
        ELSE IF p = "."
             THEN IF dot_index # <<>> THEN Token("Invalid", start, i)
                  ELSE LET j == next_char(s, i)
                       IN  digit_loop_local(s, start, j, <<j>>)
        ELSE IF dot_index # <<>> /\ dot_index[1] = i THEN invalid(s, start)
        ELSE IF dot_index # <<>> THEN Token("Float", start, i)
        ELSE Token("Int", start, i)

\* the loop of from_digit and the match after it; dot_index is <<>> for
\* None and <<i>> for Some(i)
RECURSIVE digit_loop(_, _, _, _)
digit_loop(s, start, i, dot_index) ==
    LET p == peek_char(s, i)
    IN  IF p = Panic THEN PanicToken
        ELSE IF p \in NumChar THEN digit_loop(s, start, next_char(s, i), dot_index)
        ELSE IF p = "."
             THEN IF dot_index # <<>> THEN invalid(s, start)
                  ELSE LET j == next_char(s, i)
                       IN  digit_loop(s, start, j, <<j>>)
        ELSE IF dot_index # <<>> /\ dot_index[1] = i THEN invalid(s, start)
        ELSE IF dot_index # <<>> THEN Token("Float", start, i)
        ELSE Token("Int", start, i)

from_digit(s, start) ==
    digit_loop(s, start, next_char(s, start), <<>>)

\* letter_loop taking digits into the word as well
RECURSIVE letter_loop_alnum(_, _)
letter_loop_alnum(s, i) ==
    LET p == peek_char(s, i)
    IN  IF p = Panic THEN Unwound
        ELSE IF p \in WordChar \cup Digit
             THEN letter_loop_alnum(s, next_char(s, i))
        ELSE i

\* letter_loop accepting fewer characters than the dispatch of next() does
RECURSIVE letter_loop_lower(_, _)
letter_loop_lower(s, i) ==
    LET p == peek_char(s, i)
    IN  IF p = Panic THEN Unwound
        ELSE IF p \in Lower THEN letter_loop_lower(s, next_char(s, i))
        ELSE i

\* the while-let loop of from_letter: the index it stops at
RECURSIVE letter_loop(_, _)
letter_loop(s, i) ==
    LET p == peek_char(s, i)
    IN  IF p = Panic THEN Unwound
        ELSE IF p \in WordChar THEN letter_loop(s, next_char(s, i))
        ELSE i

\* &self.string[a..b]; <<Panic>> when the slice panics (no text holds it)
Slice(s, a, b) ==
    IF a < 0 \/ b < a \/ b > Len(s) THEN <<Panic>>
    ELSE IF ~is_char_boundary(s, a) \/ ~is_char_boundary(s, b) THEN <<Panic>>
    ELSE SubSeq(s, a + 1, b)

\* the match of from_letter on the lexeme
keyword_kind(text) ==
    IF text = <<"s", "t", "r", "u", "c", "t">> THEN "Struct"
    ELSE IF text = <<"u", "n", "i", "o", "n">> THEN "Union"
    ELSE IF text = <<"t", "r", "a", "i", "t">> THEN "Trait"
    ELSE IF text = <<"o", "r">> THEN "Or"
    ELSE IF text = <<"a", "n", "d">> THEN "And"
    ELSE "Identifier"

from_letter(s, start) ==
    LET i == letter_loop(s, start)
        text == Slice(s, start, i)
    IN  IF text = <<Panic>> THEN PanicToken
        ELSE Token(keyword_kind(text), start, i)

(***************************************************************************)
(* Lexer::next: the token it returns and the index it leaves.              *)
(***************************************************************************)
\* the match of next() with an arm that returns the Hashtag kind for '#'
dispatch_hashtag(s, start, peek) ==
    CASE peek = LF -> Token("LineBreak", start, start + 1)
      [] peek = "@" -> Token("At", start, start + 1)
      [] peek = "," -> Token("Comma", start, start + 1)
      [] peek = "*" -> Token("Times", start, start + 1)
      [] peek = "(" -> Token("ParenL", start, start + 1)
      [] peek = ")" -> Token("ParenR", start, start + 1)
      [] peek = "[" -> Token("SquareL", start, start + 1)
      [] peek = "]" -> Token("SquareR", start, start + 1)
      [] peek = "{" -> Token("CurlyL", start, start + 1)
      [] peek = "}" -> Token("CurlyR", start, start + 1)
      [] peek = "." -> Token("Dot", start, start + 1)
      [] peek = "#" -> Token("Hashtag", start, start + 1)
      [] peek \in Blank -> from_whitespace(s, start)
      [] peek = "-" -> from_dash(s, start)
      [] peek = "=" -> from_equals(s, start)
      [] peek = "+" -> from_plus(s, start)
      [] peek = "/" -> from_slash(s, start)
      [] peek = SingleQuote -> from_single_quote(s, start)
      [] peek = DoubleQuote -> from_quote(s, start)
      [] peek = ":" -> from_colon(s, start)
      [] peek \in Digit -> from_digit(s, start)
      [] peek \in WordChar -> from_letter(s, start)
      [] OTHER -> invalid(s, start)

\* the match on the peeked character
dispatch(s, start, peek) ==
    CASE peek = LF -> Token("LineBreak", start, start + 1)
      [] peek = "@" -> Token("At", start, start + 1)
      [] peek = "," -> Token("Comma", start, start + 1)
      [] peek = "*" -> Token("Times", start, start + 1)
      [] peek = "(" -> Token("ParenL", start, start + 1)
      [] peek = ")" -> Token("ParenR", start, start + 1)
      [] peek = "[" -> Token("SquareL", start, start + 1)
      [] peek = "]" -> Token("SquareR", start, start + 1)
      [] peek = "{" -> Token("CurlyL", start, start + 1)
      [] peek = "}" -> Token("CurlyR", start, start + 1)
      [] peek = "." -> Token("Dot", start, start + 1)
      [] peek \in Blank -> from_whitespace(s, start)
      [] peek = "-" -> from_dash(s, start)
      [] peek = "=" -> from_equals(s, start)
      [] peek = "+" -> from_plus(s, start)
      [] peek = "/" -> from_slash(s, start)
      [] peek = SingleQuote -> from_single_quote(s, start)
      [] peek = DoubleQuote -> from_quote(s, start)
      [] peek = ":" -> from_colon(s, start)
      [] peek \in Digit -> from_digit(s, start)
      [] peek \in WordChar -> from_letter(s, start)
      [] OTHER -> invalid(s, start)

\* next() without its assignment self.index = token.end
next_no_store(s, i) ==
    LET start == i
        peek == peek_char(s, i)
    IN  IF peek = Panic THEN [token |-> PanicToken, index |-> i]
        ELSE IF peek = None
             THEN [token |-> Token("End", start, start), index |-> i]
        ELSE LET token == dispatch(s, start, peek)
             IN  [token |-> token, index |-> i]

\* next() stepping over the end of the input when it returns End
next_end_advances(s, i) ==
    LET start == i
        peek == peek_char(s, i)
    IN  IF peek = Panic THEN [token |-> PanicToken, index |-> i]
        ELSE IF peek = None
             THEN [token |-> Token("End", start, start), index |-> i + 1]
        ELSE LET token == dispatch(s, start, peek)
             IN  IF token = PanicToken THEN [token |-> PanicToken, index |-> i]
                 ELSE [token |-> token, index |-> token.end]

next(s, i) ==
    LET start == i
        peek == peek_char(s, i)
    IN  IF peek = Panic THEN [token |-> PanicToken, index |-> i]
        ELSE IF peek = None
             THEN [token |-> Token("End", start, start), index |-> i]
        ELSE LET token == dispatch(s, start, peek)
             IN  IF token = PanicToken THEN [token |-> PanicToken, index |-> i]
                 ELSE [token |-> token, index |-> token.end]

(***************************************************************************)
(* The sources the lexer is run on.                                        *)
(***************************************************************************)
SeqsUpTo(S, n) == UNION {[1..k -> S] : k \in 0..n}

\* every dispatch class of next() has a character here
Sigma == {LF, "(", ".", "*", " ", "-", "=", "+", "/", SingleQuote,
          DoubleQuote, ":", "1", "a", "_", ">", "#", EAcute}
\* the characters of the operators, of numbers, of comments and of literals
OpSigma == {"-", "=", "+", ":", ">"}
NumSigma == {"1", "_", ".", "a"}
CommentSigma == {"/", "*", LF, Euro}
QuoteSigma == {SingleQuote, DoubleQuote, "a", "\\", EAcute}
\* the characters of white space, the newline and an unrecognized character
BlankSigma == {" ", CR, TAB, LF, "#"}

\* words: the reserved words and what may surround them
Fragments == {<<"s", "t", "r", "u", "c", "t">>, <<"u", "n", "i", "o", "n">>,
              <<"t", "r", "a", "i", "t">>, <<"o", "r">>, <<"a", "n", "d">>,
              <<"O", "r">>, <<"a", "n", "g", "e">>, <<"_">>, <<"1">>,
              <<" ">>}

RECURSIVE Concat(_)
Concat(ws) == IF ws = <<>> THEN <<>> ELSE Head(ws) \o Concat(Tail(ws))

Sources ==
    {Utf8(cs) : cs \in SeqsUpTo(Sigma, MaxLen)}
    \cup {Utf8(cs) : cs \in SeqsUpTo(OpSigma, MaxLen + 2)}
    \cup {Utf8(cs) : cs \in SeqsUpTo(QuoteSigma, MaxLen + 2)}
    \cup {Utf8(cs) : cs \in SeqsUpTo(BlankSigma, MaxLen + 2)}
    \cup {Utf8(cs) : cs \in SeqsUpTo(NumSigma, MaxLen + 3)}
    \cup {Utf8(cs) : cs \in SeqsUpTo(CommentSigma, MaxLen + 3)}
    \cup {Concat(ws) : ws \in SeqsUpTo(Fragments, MaxWords)}

(***************************************************************************)
(* The state machine: a Lexer over one source, next() called repeatedly.   *)
(* tokens is the history of the tokens returned.  others holds the other   *)
(* Lexer instances over the same source (none here).                       *)
(***************************************************************************)
\* Lexer::new
Init ==
    /\ string \in Sources
    /\ index = 0
    /\ tokens = <<>>
    /\ panicked = FALSE
    /\ others = <<>>

\* one call of next(); a call that panics returns no token and ends the run
LexerNext ==
    /\ ~panicked
    /\ Len(tokens) < Len(string) + ExtraCalls
    /\ LET r == next(string, index)
       IN  IF r.token = PanicToken
           THEN /\ panicked' = TRUE
                /\ UNCHANGED <<string, index, tokens, others>>
           ELSE /\ index' = r.index
                /\ tokens' = Append(tokens, r.token)
                /\ UNCHANGED <<string, panicked, others>>

Next == LexerNext

Spec == Init /\ [][Next]_vars

(***************************************************************************)
(* Two Lexer instances over one source: the first, and a clone of it made  *)
(* at any moment (a clone of a fresh Lexer is a second Lexer::new over the *)
(* same source).  The calls of next() on the two interleave in any order.  *)
(* The clone is a record of its cursor, the cursor it was cloned at and    *)
(* the tokens it has returned.                                             *)
(***************************************************************************)
TwoSigma == {"-", ">", "1", ".", "/", "a"}
TwoSources == {Utf8(cs) : cs \in SeqsUpTo(TwoSigma, MaxLen + 1)}

InitTwo ==
    /\ string \in TwoSources
    /\ index = 0
    /\ tokens = <<>>
    /\ panicked = FALSE
    /\ others = <<>>

\* #[derive(Clone)]: the clone borrows the same string and copies index
LexerClone ==
    /\ ~panicked
    /\ others = <<>>
    /\ others' = <<[index |-> index, origin |-> index, tokens |-> <<>>]>>
    /\ UNCHANGED <<string, index, tokens, panicked>>

\* one call of next() on the other instance, with a cursor shared between
\* the instances instead of one cursor each
OtherNextShared ==
    /\ ~panicked
    /\ others # <<>>
    /\ Len(others[1].tokens) < Len(string) + ExtraCalls
    /\ LET r == next(string, index)
       IN  IF r.token = PanicToken
           THEN /\ panicked' = TRUE
                /\ UNCHANGED <<string, index, tokens, others>>
           ELSE /\ index' = r.index
                /\ others' = <<[others[1] EXCEPT
                                   !.index = r.index,
                                   !.tokens = Append(@, r.token)]>>
                /\ UNCHANGED <<string, tokens, panicked>>

\* one call of next() on the other instance
OtherNext ==
    /\ ~panicked
    /\ others # <<>>
    /\ Len(others[1].tokens) < Len(string) + ExtraCalls
    /\ LET r == next(string, others[1].index)
       IN  IF r.token = PanicToken
           THEN /\ panicked' = TRUE
                /\ UNCHANGED <<string, index, tokens, others>>
           ELSE /\ others' = <<[others[1] EXCEPT
                                   !.index = r.index,
                                   !.tokens = Append(@, r.token)]>>
                /\ UNCHANGED <<string, index, tokens, panicked>>

NextTwo == LexerNext \/ LexerClone \/ OtherNext

SpecTwo == InitTwo /\ [][NextTwo]_vars

(***************************************************************************)
(* Notions the properties are stated in.                                   *)
(***************************************************************************)
Last(seq) == seq[Len(seq)]

Kinds == {tokens[k].kind : k \in 1..Len(tokens)}

\* the character at byte offset off of s (None at and past the end)
CharAt(s, off) == IF off < Len(s) THEN s[off + 1] ELSE None

\* the lexeme of a token
Lexeme(t) == SubSeq(string, t.start + 1, t.end)

\* a step is a call of next() that returned a token
Returned == tokens' = Append(tokens, Last(tokens'))

(***************************************************************************)
(* C1  Coverage.  On a source with no invalid construct (no Invalid token  *)
(* is returned) the first token starts at 0, every later token starts      *)
(* where the previous one ended, the cursor after a call is the end of the *)
(* token returned, every token is a span start <= end, and an End token    *)
(* has start = end = len(source): the spans before End tile the source.    *)
(***************************************************************************)
C1_Coverage ==
    ("Invalid" \notin Kinds /\ tokens # <<>>) =>
        /\ tokens[1].start = 0
        /\ \A k \in 2..Len(tokens) : tokens[k].start = tokens[k - 1].end
        /\ \A k \in 1..Len(tokens) : tokens[k].start <= tokens[k].end
        /\ index = Last(tokens).end
        /\ \A k \in 1..Len(tokens) :
              tokens[k].kind = "End" =>
                  /\ tokens[k].start = Len(string)
                  /\ tokens[k].end = Len(string)
        /\ Len(tokens) > Len(string) => "End" \in Kinds

\* a source of several tokens, one of them wider than a byte, lexed to End
C1_Witness ==
    /\ "Invalid" \notin Kinds
    /\ Len(tokens) >= 4
    /\ tokens[3].kind # "End"
    /\ Last(tokens).kind = "End"
    /\ \E k \in 1..Len(tokens) : tokens[k].end > tokens[k].start + 1

(***************************************************************************)
(* C2  Termination.  A call of next() made with the cursor before the end  *)
(* of the source returns a token with end > start and strictly increases   *)
(* the cursor; and End is among the first len(source) + 1 tokens.          *)
(***************************************************************************)
C2_Advances ==
    (index < Len(string)) =>
        /\ Returned
        /\ Last(tokens').end > Last(tokens').start
        /\ index' > index

C2_EndWithin ==
    Len(tokens) > Len(string) =>
        \E k \in 1..(Len(string) + 1) : tokens[k].kind = "End"

C2_Termination == [][C2_Advances]_vars /\ []C2_EndWithin

\* every byte of a source was a token of its own: End came at call len + 1
C2_Witness ==
    /\ Len(string) >= 3
    /\ Len(tokens) = Len(string) + 1
    /\ Last(tokens).kind = "End"
    /\ \A k \in 1..Len(string) : tokens[k].kind # "End"

(***************************************************************************)
(* C3  Idempotent termination.  Once next() has returned End, every later  *)
(* call returns End with the same span, start = end = cursor =             *)
(* len(source), and leaves the cursor unchanged.                           *)
(***************************************************************************)
C3_EndRepeats ==
    (tokens # <<>> /\ Last(tokens).kind = "End") =>
        /\ tokens' = Append(tokens, Last(tokens))
        /\ Last(tokens).start = index
        /\ Last(tokens).end = index
        /\ index = Len(string)
        /\ index' = index

C3_IdempotentEnd == [][C3_EndRepeats]_vars

\* End was returned three times in a row after a token
C3_Witness ==
    /\ Len(tokens) >= 4
    /\ \A k \in (Len(tokens) - 2)..Len(tokens) : tokens[k].kind = "End"
    /\ tokens[1].kind # "End"

(***************************************************************************)
(* C4  Invalid absorbs the remainder.  An Invalid token ends at            *)
(* len(source); the call after it returns End; so the stream holds at most *)
(* one Invalid and only End tokens after it.                               *)
(***************************************************************************)
C4_InvalidAbsorbs ==
    \A k \in 1..Len(tokens) :
        tokens[k].kind = "Invalid" =>
            /\ tokens[k].end = Len(string)
            /\ ~panicked
            /\ \A j \in (k + 1)..Len(tokens) : tokens[j].kind = "End"

\* a valid token, then an Invalid that is not the whole source, then End
C4_Witness ==
    /\ Len(tokens) >= 3
    /\ tokens[1].kind \notin {"Invalid", "End"}
    /\ tokens[2].kind = "Invalid"
    /\ tokens[2].end > tokens[2].start + 1
    /\ tokens[3].kind = "End"

(***************************************************************************)
(* C5  No panic path.  No call of next() panics: next_char() is never      *)
(* called with no character at the cursor and the source is never sliced   *)
(* past its end or inside a multi-byte character.                          *)
(***************************************************************************)
C5_NoPanic == ~panicked

\* a source with a multi-byte character and a truncated construct, lexed to
\* End and beyond
C5_Witness ==
    /\ ~panicked
    /\ \E k \in 1..Len(string) : string[k] = Cont
    /\ string[1] \in {SingleQuote, DoubleQuote, "/"}
    /\ tokens # <<>>
    /\ tokens[1].kind = "Invalid"
    /\ Len(tokens) >= 3
    /\ Last(tokens).kind = "End"

(***************************************************************************)
(* C6  Span and cursor invariant.  0 <= index <= len(source) and index is  *)
(* on a character boundary; every token returned has                       *)
(* 0 <= start <= end <= len(source), both on character boundaries.         *)
(***************************************************************************)
C6_SpanInvariant ==
    /\ 0 <= index
    /\ index <= Len(string)
    /\ is_char_boundary(string, index)
    /\ \A k \in 1..Len(tokens) :
          /\ 0 <= tokens[k].start
          /\ tokens[k].start <= tokens[k].end
          /\ tokens[k].end <= Len(string)
          /\ is_char_boundary(string, tokens[k].start)
          /\ is_char_boundary(string, tokens[k].end)

\* a token whose end is computed as index + 1 was returned right after a
\* multi-byte character
C6_Witness ==
    \E k \in 1..Len(tokens) :
        /\ tokens[k].kind \in {"Char", "String"}
        /\ \E b \in (tokens[k].start + 1)..tokens[k].end : string[b] = Cont

(***************************************************************************)
(* C7  Two-character operators.  With the cursor at '-', next() returns    *)
(* ThinArrow of width 2 if '>' follows and Minus of width 1 otherwise; at  *)
(* '=' ThickArrow (2) if '>' follows, DoubleEquals (2) if '=' follows,     *)
(* else Equals (1); at '+' DoublePlus (2) if '+' follows, else Plus (1);   *)
(* at ':' DoubleColon (2) if ':' follows, else Colon (1); also when the    *)
(* first character is the last of the source.                              *)
(***************************************************************************)
Wide(kind, off) == [kind |-> kind, start |-> off, end |-> off + 2]
Narrow(kind, off) == [kind |-> kind, start |-> off, end |-> off + 1]

C7_Expected(off) ==
    LET c == CharAt(string, off)
        n == CharAt(string, off + 1)
    IN  CASE c = "-" -> IF n = ">" THEN Wide("ThinArrow", off)
                        ELSE Narrow("Minus", off)
          [] c = "=" -> IF n = ">" THEN Wide("ThickArrow", off)
                        ELSE IF n = "=" THEN Wide("DoubleEquals", off)
                        ELSE Narrow("Equals", off)
          [] c = "+" -> IF n = "+" THEN Wide("DoublePlus", off)
                        ELSE Narrow("Plus", off)
          [] c = ":" -> IF n = ":" THEN Wide("DoubleColon", off)
                        ELSE Narrow("Colon", off)

C7_TwoCharOperators ==
    \A k \in 1..Len(tokens) :
        CharAt(string, tokens[k].start) \in {"-", "=", "+", ":"} =>
            tokens[k] = C7_Expected(tokens[k].start)

\* a two-character operator, then a one-character operator that is the last
\* character of the source
C7_Witness ==
    /\ Len(tokens) >= 3
    /\ tokens[1].kind \in {"ThinArrow", "ThickArrow", "DoubleEquals",
                           "DoublePlus", "DoubleColon"}
    /\ tokens[2].kind \in {"Minus", "Equals", "Plus", "Colon"}
    /\ tokens[2].end = Len(string)
    /\ tokens[3].kind = "End"

(***************************************************************************)
(* C8  Numeric literals.  With the cursor at a digit, let R be the maximal *)
(* run of digits, '_' and '.' from there.  next() returns Int spanning R   *)
(* if R has no '.', Float spanning R if R has exactly one '.' and does not *)
(* end with it, and otherwise Invalid from the literal's start to the end  *)
(* of the source.  So an Int lexeme holds only digits and underscores and  *)
(* a Float lexeme holds exactly one '.'.                                   *)
(***************************************************************************)
\* the offset at which the maximal run of characters of S from off ends
RECURSIVE RunEnd(_, _, _)
RunEnd(s, off, S) ==
    IF off < Len(s) /\ s[off + 1] \in S THEN RunEnd(s, off + 1, S) ELSE off

Dots(text) == Cardinality({b \in 1..Len(text) : text[b] = "."})

C8_Expected(off) ==
    LET e == RunEnd(string, off, NumChar \cup {"."})
        R == SubSeq(string, off + 1, e)
    IN  IF Dots(R) = 0 THEN [kind |-> "Int", start |-> off, end |-> e]
        ELSE IF Dots(R) = 1 /\ R[Len(R)] # "."
             THEN [kind |-> "Float", start |-> off, end |-> e]
        ELSE [kind |-> "Invalid", start |-> off, end |-> Len(string)]

C8_NumericLiterals ==
    \A k \in 1..Len(tokens) :
        LET t == tokens[k]
        IN  /\ CharAt(string, t.start) \in Digit => t = C8_Expected(t.start)
            /\ t.kind = "Int" =>
                  \A b \in 1..Len(Lexeme(t)) : Lexeme(t)[b] \in NumChar
            /\ t.kind = "Float" =>
                  /\ Dots(Lexeme(t)) = 1
                  /\ \A b \in 1..Len(Lexeme(t)) :
                        Lexeme(t)[b] \in NumChar \cup {"."}

\* a Float with an underscore right after its dot, ended by a letter
C8_Witness ==
    /\ Len(tokens) >= 2
    /\ tokens[1].kind = "Float"
    /\ \E b \in 2..Len(Lexeme(tokens[1])) :
          Lexeme(tokens[1])[b - 1] = "." /\ Lexeme(tokens[1])[b] = "_"
    /\ tokens[2].kind = "Identifier"

(***************************************************************************)
(* C9  Keyword exactness.  With the cursor at a letter or '_', next()      *)
(* returns one token spanning the maximal run of [A-Za-z_] (a digit ends   *)
(* the run); its kind is Struct, Union, Trait, Or or And exactly when the  *)
(* run is "struct", "union", "trait", "or" or "and", and Identifier for    *)
(* every other run.                                                        *)
(***************************************************************************)
ReservedWord ==
    [Struct |-> <<"s", "t", "r", "u", "c", "t">>,
     Union |-> <<"u", "n", "i", "o", "n">>,
     Trait |-> <<"t", "r", "a", "i", "t">>,
     Or |-> <<"o", "r">>,
     And |-> <<"a", "n", "d">>]

C9_KeywordExactness ==
    \A k \in 1..Len(tokens) :
        LET t == tokens[k]
            e == RunEnd(string, t.start, WordChar)
            run == SubSeq(string, t.start + 1, e)
        IN  CharAt(string, t.start) \in WordChar =>
                /\ t.end = e
                /\ t.kind \in DOMAIN ReservedWord \cup {"Identifier"}
                /\ \A kw \in DOMAIN ReservedWord :
                      t.kind = kw <=> run = ReservedWord[kw]

\* a reserved word ended by a digit, then a word that is not reserved
C9_Witness ==
    /\ Len(tokens) >= 3
    /\ tokens[1].kind \in DOMAIN ReservedWord
    /\ tokens[2].kind = "Int"
    /\ tokens[3].kind = "Identifier"

(***************************************************************************)
(* C10  Block comments.  With the cursor at "/*" at offset s, next()       *)
(* returns Comment from s through the '/' of the first "*/" that begins at *)
(* an offset >= s + 2 (the '*' of the opener is not the '*' of a closer,   *)
(* nesting is ignored); if there is none, Invalid from s to len(source).   *)
(***************************************************************************)
\* the offsets from `from` on at which "*/" begins
Closers(s, from) ==
    {j \in from..(Len(s) - 2) : s[j + 1] = "*" /\ s[j + 2] = "/"}

Least(S) == CHOOSE x \in S : \A y \in S : x <= y

C10_Expected(off) ==
    LET cs == Closers(string, off + 2)
    IN  IF cs # {}
        THEN [kind |-> "Comment", start |-> off, end |-> Least(cs) + 2]
        ELSE [kind |-> "Invalid", start |-> off, end |-> Len(string)]

C10_BlockComments ==
    \A k \in 1..Len(tokens) :
        LET t == tokens[k]
        IN  (CharAt(string, t.start) = "/" /\ CharAt(string, t.start + 1) = "*")
                => t = C10_Expected(t.start)

\* a comment that opens with "/*/" and is closed by the "*/" after it
C10_Witness ==
    /\ Len(tokens) >= 2
    /\ Len(string) >= 5
    /\ SubSeq(string, 1, 3) = <<"/", "*", "/">>
    /\ tokens[1].kind = "Comment"
    /\ tokens[1].end = 5
    /\ tokens[2].kind = "End"

(***************************************************************************)
(* C11  Line comments and Div.  With the cursor at "//", next() returns    *)
(* Comment from the first '/' up to, not including, the next newline (or   *)
(* to the end of the source when there is none), so the token after a line *)
(* comment is LineBreak or End; with the cursor at '/' followed by neither *)
(* '/' nor '*' (or by nothing), next() returns Div of width 1.             *)
(***************************************************************************)
\* the offsets from `from` on at which a newline stands
Newlines(s, from) == {j \in from..(Len(s) - 1) : s[j + 1] = LF}

C11_LineEnd(off) ==
    IF Newlines(string, off) # {} THEN Least(Newlines(string, off))
    ELSE Len(string)

C11_LineCommentsAndDiv ==
    \A k \in 1..Len(tokens) :
        LET t == tokens[k]
            c == CharAt(string, t.start)
            n == CharAt(string, t.start + 1)
        IN  /\ (c = "/" /\ n = "/") =>
                  /\ t = [kind |-> "Comment", start |-> t.start,
                          end |-> C11_LineEnd(t.start + 2)]
                  /\ k < Len(tokens) =>
                        tokens[k + 1].kind \in {"LineBreak", "End"}
            /\ (c = "/" /\ n \notin {"/", "*"}) => t = Narrow("Div", t.start)

\* a line comment with text, the LineBreak after it, and '/' as the last
\* character of the source
C11_Witness ==
    /\ Len(tokens) >= 4
    /\ SubSeq(string, 1, 2) = <<"/", "/">>
    /\ tokens[1].kind = "Comment"
    /\ tokens[1].end > 2
    /\ tokens[2].kind = "LineBreak"
    /\ tokens[3].kind = "Div"
    /\ tokens[4].kind = "End"

(***************************************************************************)
(* C12  Char literals.  With the cursor at a single quote at offset s,     *)
(* next() returns Char exactly when the source goes on with one character  *)
(* c that is not a single quote and then a single quote; the token then    *)
(* spans from s through the closing quote (2 + the width of c).  In every  *)
(* other case it returns Invalid from s to len(source).                    *)
(***************************************************************************)
C12_Expected(off) ==
    LET c == CharAt(string, off + 1)
    IN  IF /\ c \notin {None, SingleQuote}
           /\ CharAt(string, off + 1 + len_utf8(c)) = SingleQuote
        THEN [kind |-> "Char", start |-> off, end |-> off + 2 + len_utf8(c)]
        ELSE [kind |-> "Invalid", start |-> off, end |-> Len(string)]

C12_CharLiterals ==
    \A k \in 1..Len(tokens) :
        /\ CharAt(string, tokens[k].start) = SingleQuote =>
              tokens[k] = C12_Expected(tokens[k].start)
        /\ tokens[k].kind = "Char" =>
              CharAt(string, tokens[k].start) = SingleQuote

\* a Char of a multi-byte character, with a token after it
C12_Witness ==
    /\ Len(tokens) >= 2
    /\ tokens[1].kind = "Char"
    /\ tokens[1].end = 4
    /\ tokens[2].kind \notin {"End", "Invalid"}

(***************************************************************************)
(* C13  String literals.  With the cursor at a double quote at offset s,   *)
(* next() returns String from s through the first double quote after s,    *)
(* whatever precedes that quote (a backslash does not escape it), so a     *)
(* String lexeme holds exactly two double quotes, its first and last       *)
(* characters; with no double quote after s it returns Invalid from s to   *)
(* len(source).                                                            *)
(***************************************************************************)
\* the offsets from `from` on at which a double quote stands
Quotes(s, from) == {j \in from..(Len(s) - 1) : s[j + 1] = DoubleQuote}

C13_Expected(off) ==
    LET qs == Quotes(string, off + 1)
    IN  IF qs # {}
        THEN [kind |-> "String", start |-> off, end |-> Least(qs) + 1]
        ELSE [kind |-> "Invalid", start |-> off, end |-> Len(string)]

C13_StringLiterals ==
    \A k \in 1..Len(tokens) :
        LET t == tokens[k]
        IN  /\ CharAt(string, t.start) = DoubleQuote => t = C13_Expected(t.start)
            /\ t.kind = "String" =>
                  {b \in 1..Len(Lexeme(t)) : Lexeme(t)[b] = DoubleQuote}
                      = {1, Len(Lexeme(t))}

\* a String closed by a quote that follows a backslash, with a token after it
C13_Witness ==
    /\ Len(tokens) >= 2
    /\ tokens[1].kind = "String"
    /\ Lexeme(tokens[1]) = <<DoubleQuote, "\\", DoubleQuote>>
    /\ tokens[2].kind \notin {"End", "Invalid"}

(***************************************************************************)
(* C14  Whitespace maximal munch.  A WhiteSpace token spans a maximal      *)
(* non-empty run of space, carriage return and tab, so two WhiteSpace      *)
(* tokens are never adjacent; a newline is never part of a WhiteSpace      *)
(* token; and every newline outside a comment, string or char literal, and *)
(* not absorbed by an Invalid token, is a LineBreak token of its own, one  *)
(* character wide.                                                         *)
(***************************************************************************)
\* the token begins a comment, a string or a char literal, finished or not
InLiteralOrComment(t) ==
    CharAt(string, t.start) \in {"/", DoubleQuote, SingleQuote}

\* the offsets of the newlines a token spans
NewlinesIn(t) == {o \in t.start..(t.end - 1) : string[o + 1] = LF}

C14_Munch ==
    \A k \in 1..Len(tokens) :
        LET t == tokens[k]
        IN  /\ CharAt(string, t.start) \in Blank => t.kind = "WhiteSpace"
            /\ t.kind = "WhiteSpace" =>
                  /\ t.start < t.end
                  /\ \A b \in 1..Len(Lexeme(t)) : Lexeme(t)[b] \in Blank
                  /\ CharAt(string, t.end) \notin Blank
                  /\ t.start > 0 => string[t.start] \notin Blank
                  /\ k < Len(tokens) => tokens[k + 1].kind # "WhiteSpace"

C14_WhitespaceMunch ==
    /\ C14_Munch
    /\ \A k \in 1..Len(tokens) :
          \A o \in NewlinesIn(tokens[k]) :
              \/ InLiteralOrComment(tokens[k])
              \/ tokens[k].kind = "Invalid"
              \/ tokens[k] = Narrow("LineBreak", o)

\* the claim as it was stated: every newline outside a comment, string or
\* char literal is a LineBreak token of its own
C14_Original ==
    /\ C14_Munch
    /\ \A k \in 1..Len(tokens) :
          \A o \in NewlinesIn(tokens[k]) :
              \/ InLiteralOrComment(tokens[k])
              \/ tokens[k] = Narrow("LineBreak", o)

\* a run of two different white space characters, then an Invalid token
\* that absorbs a newline
C14_Witness ==
    /\ Len(tokens) >= 2
    /\ tokens[1].kind = "WhiteSpace"
    /\ tokens[1].end = 2
    /\ string[1] # string[2]
    /\ tokens[2].kind = "Invalid"
    /\ NewlinesIn(tokens[2]) # {}

(***************************************************************************)
(* C15  Fail-to-end on unrecognized characters.  When the character at the *)
(* cursor is none of the characters next() dispatches on (newline, @ , *   *)
(* ( ) [ ] { } . space, carriage return, tab, - = + / ' " : digits, ASCII  *)
(* letters, underscore), next() returns Invalid from the cursor to         *)
(* len(source).                                                            *)
(***************************************************************************)
Dispatched ==
    {LF, "@", ",", "*", "(", ")", "[", "]", "{", "}", ".", " ", CR, TAB,
     "-", "=", "+", "/", SingleQuote, DoubleQuote, ":", "_"}
    \cup Digit \cup Upper \cup Lower

C15_FailToEnd ==
    \A k \in 1..Len(tokens) :
        CharAt(string, tokens[k].start) \notin Dispatched \cup {None} =>
            tokens[k] = [kind |-> "Invalid", start |-> tokens[k].start,
                         end |-> Len(string)]

\* after a valid token, a non-ASCII character with more text behind it
C15_Witness ==
    /\ Len(tokens) >= 3
    /\ tokens[1].kind \notin {"Invalid", "End"}
    /\ CharAt(string, tokens[2].start) = EAcute
    /\ tokens[2].kind = "Invalid"
    /\ tokens[2].end > tokens[2].start + 2
    /\ tokens[3].kind = "End"

(***************************************************************************)
(* C19  Hashtag is unreachable.  No token returned has kind Hashtag; a '#' *)
(* at the cursor yields Invalid to the end of the source.                  *)
(***************************************************************************)
C19_NoHashtag ==
    /\ "Hashtag" \notin Kinds
    /\ \A k \in 1..Len(tokens) :
          CharAt(string, tokens[k].start) = "#" =>
              /\ tokens[k].kind = "Invalid"
              /\ tokens[k].end = Len(string)

\* after a valid token, a '#' with more text behind it
C19_Witness ==
    /\ Len(tokens) >= 3
    /\ tokens[1].kind \notin {"Invalid", "End"}
    /\ CharAt(string, tokens[2].start) = "#"
    /\ tokens[2].end > tokens[2].start + 1
    /\ tokens[3].kind = "End"

(***************************************************************************)
(* C20  Numeric literals swallow a following dot.  The token right after   *)
(* an Int or Float token is never Dot, Int or Float: a digit run directly  *)
(* followed by '.' is lexed as part of the numeric literal, which is Float *)
(* or, when no digit or underscore follows the '.', Invalid to the end of  *)
(* the source.                                                             *)
(***************************************************************************)
C20_SwallowsDot ==
    \A k \in 1..Len(tokens) :
        LET t == tokens[k]
            dot == RunEnd(string, t.start, NumChar)
        IN  /\ (k < Len(tokens) /\ t.kind \in {"Int", "Float"}) =>
                  tokens[k + 1].kind \notin {"Dot", "Int", "Float"}
            /\ (CharAt(string, t.start) \in Digit /\ CharAt(string, dot) = ".") =>
                  /\ t.kind \in {"Float", "Invalid"}
                  /\ t.kind = "Float" => t.end > dot + 1
                  /\ t.kind = "Invalid" => t.end = Len(string)
                  /\ CharAt(string, dot + 1) \notin NumChar =>
                        t.kind = "Invalid"

\* a digit, a dot and a letter: the literal is Invalid to the end
C20_Witness ==
    /\ Len(tokens) >= 2
    /\ Len(string) >= 3
    /\ string[1] \in Digit
    /\ string[2] = "."
    /\ string[3] \in Lower
    /\ tokens[1].kind = "Invalid"
    /\ tokens[2].kind = "End"

(***************************************************************************)
(* C17  Underscore placement.  In a source that lexes as a single Int or   *)
(* Float token, replacing any digit other than the first by '_' still      *)
(* yields a single token of the same kind and the same span.               *)
(***************************************************************************)
\* the source with the character at byte b replaced by '_'
WithUnderscore(s, b) == [s EXCEPT ![b] = "_"]

\* the source lexed as a single Int or Float token
C17_SingleNumber ==
    /\ tokens # <<>>
    /\ tokens[1].kind \in {"Int", "Float"}
    /\ tokens[1].end = Len(string)

C17_Underscores ==
    C17_SingleNumber =>
        \A b \in 2..Len(string) :
            string[b] \in Digit =>
                next(WithUnderscore(string, b), 0).token = tokens[1]

\* the claim as it was stated: any digit, the leading one included
C17_Original ==
    C17_SingleNumber =>
        \A b \in 1..Len(string) :
            string[b] \in Digit =>
                next(WithUnderscore(string, b), 0).token = tokens[1]

\* a Float of five characters with a digit on each side of its dot and a
\* digit as its last character
C17_Witness ==
    /\ C17_SingleNumber
    /\ tokens[1].kind = "Float"
    /\ Len(string) = 5
    /\ \E b \in 2..4 : /\ string[b] = "."
                       /\ string[b - 1] \in Digit
                       /\ string[b + 1] \in Digit
    /\ string[5] \in Digit

(***************************************************************************)
(* C18  Bounded lookahead.  A token other than Invalid with span [s, e)    *)
(* depends only on the characters at [s, e) and on the one character at    *)
(* offset e: on every source that agrees with this one through the         *)
(* character at e, a scanner positioned at s returns the same kind and     *)
(* span.  (Two sources that both end at e and agree before e are the same  *)
(* source.)                                                                *)
(***************************************************************************)
\* what the other source may hold behind the character at e
TailSigma == {".", "1", "_", ">", "=", "+", ":", "/", "*", SingleQuote,
              DoubleQuote, LF, " ", "a", "#", EAcute}
Tails ==
    {Utf8(cs) : cs \in SeqsUpTo(TailSigma, 1)}
    \cup {<<"*", "/">>, <<".", "1">>, <<"1", ".">>, <<"a", SingleQuote>>}

\* the source through the character at offset e
Through(s, e) == SubSeq(s, 1, e + len_utf8(s[e + 1]))

C18_BoundedLookahead ==
    (/\ tokens # <<>>
     /\ Last(tokens).kind # "Invalid"
     /\ Last(tokens).end < Len(string)) =>
        \A tail \in Tails :
            next(Through(string, Last(tokens).end) \o tail,
                 Last(tokens).start).token = Last(tokens)

\* an Int that is not the first token, ended by a character that is not
\* the last of the source
C18_Witness ==
    /\ Len(tokens) >= 2
    /\ Last(tokens).kind = "Int"
    /\ Last(tokens).start > 0
    /\ Last(tokens).end + 1 < Len(string)

(***************************************************************************)
(* C16  Independent instances.  For two Lexer instances over the same      *)
(* source (or a Lexer and its clone), under every interleaving of their    *)
(* next() calls each instance returns exactly the tokens it would return   *)
(* when run alone; a call on one instance never changes the other          *)
(* instance's cursor or the source.                                        *)
(***************************************************************************)
\* the first n tokens of a Lexer run alone on s from cursor i
RECURSIVE Alone(_, _, _)
Alone(s, i, n) ==
    IF n = 0 THEN <<>>
    ELSE <<next(s, i).token>> \o Alone(s, next(s, i).index, n - 1)

C16_AsAlone ==
    /\ tokens = Alone(string, 0, Len(tokens))
    /\ others # <<>> =>
          others[1].tokens = Alone(string, others[1].origin,
                                   Len(others[1].tokens))

C16_NoInterference ==
    /\ string' = string
    /\ tokens' # tokens => others' = others
    /\ (others # <<>> /\ others' # others) =>
          (index' = index /\ tokens' = tokens)

C16_Independent == []C16_AsAlone /\ [][C16_NoInterference]_vars

\* a clone made in mid-stream; each instance has returned tokens since and
\* the two stand at different cursors
C16_Witness ==
    /\ others # <<>>
    /\ others[1].origin > 0
    /\ Len(others[1].tokens) >= 2
    /\ Len(tokens) >= 2
    /\ index > others[1].origin
    /\ others[1].index # index

====
